---------------------------- MODULE Spec2Model ----------------------------
(***************************************************************************)
(* pysafeprime (src/pysafeprime/pysafeprime.py, Python 2): Miller-Rabin    *)
(* testing, random k-bit prime search, Gordon's construction (safe_prime)  *)
(* and the 3-mod-4 filtered search (fast_safe_prime).                      *)
(*                                                                         *)
(* The program is sequential.  One behaviour of the model is one top-level *)
(* call; `stack` is the Python call stack and every function has one frame *)
(* variable (no function is recursive).  A return hands its value to the   *)
(* caller in `ret`, which the caller's next step consumes.  An exception   *)
(* is never caught anywhere in the source, so a raise unwinds the whole    *)
(* stack and ends the call.                                                *)
(*                                                                         *)
(* `probability` is a float in (0, 1]; it is only ever read as             *)
(* 1 / probability (line 65), so the model carries invp = 1 / probability. *)
(***************************************************************************)
EXTENDS Integers, Sequences, FiniteSets

VARIABLES
    call,      \* the top-level call: [fn, arg, invp, num_trials]
    stack,     \* names of the active functions, innermost last
    rir,       \* frame of _random_in_range
    rbi,       \* frame of _random_bit_integer
    rab,       \* frame of is_prime_rabin
    rp,        \* frame of random_prime
    rpf,       \* frame of random_prime_with_filter
    sp,        \* frame of safe_prime
    fsp,       \* frame of fast_safe_prime
    ret,       \* the value a return hands to the caller's next step
    outcome    \* of the top-level call: [kind, value, exc]

vars == <<call, stack, rir, rbi, rab, rp, rpf, sp, fsp, ret, outcome>>

---------------------------------------------------------------------------
(* Bounds of the model.                                                    *)

\* is_prime_rabin is called on -NegN .. MaxN.
NegN == 4
MaxN == 70
\* random_prime is called with k in 0 .. MaxK and num_trials in 0 .. MaxNumTrials.
MaxK == 4
MaxNumTrials == 2
\* safe_prime is called with k in 2 .. MaxSafeK, fast_safe_prime with 2 .. MaxFastK.
MaxSafeK == 3
MaxFastK == 3
\* Caps of the counters the code lets grow without limit: s in the loop of
\* line 58 (n = 1), trial in random_prime's blocking mode, i and j in safe_prime.
MaxS == 3
MaxTrial == 2
MaxIter == 14
\* The values of 1 / probability: 0, 1, 1, 2 and 3 rounds.
InvProbs == {1, 4, 5, 16, 100}

---------------------------------------------------------------------------
(* Arithmetic the source takes from Python.                                *)

RECURSIVE Pow(_, _)
Pow(b, e) == IF e <= 0 THEN 1 ELSE b * Pow(b, e - 1)

\* pow(b, e, m) for e >= 0 and m >= 1, by square and multiply.
RECURSIVE PowMod(_, _, _)
PowMod(b, e, m) ==
    IF e = 0 THEN 1 % m
    ELSE LET h == PowMod(b, e \div 2, m)
             q == (h * h) % m
         IN  IF e % 2 = 0 THEN q ELSE (q * (b % m)) % m

\* int(math.log(x, 2)) for an integer x >= 1: the largest e with 2^e <= x
\* (the float quotient truncates to that for every x the model reaches).
RECURSIVE Log2Floor(_)
Log2Floor(x) == IF x <= 1 THEN 0 ELSE 1 + Log2Floor(x \div 2)

\* int(math.log(x, 4)) for x >= 1: the largest t with 4^t <= x.
RECURSIVE Log4Floor(_)
Log4Floor(x) == IF x < 4 THEN 0 ELSE 1 + Log4Floor(x \div 4)

---------------------------------------------------------------------------
(* The call stack.                                                         *)

Top == IF stack = <<>> THEN "none" ELSE stack[Len(stack)]

Running(f) == outcome.kind = "running" /\ Top = f

Call(f) == /\ stack' = Append(stack, f)
           /\ ret' = 0
           /\ UNCHANGED outcome

Return(v) == /\ stack' = SubSeq(stack, 1, Len(stack) - 1)
             /\ ret' = v
             /\ outcome' = IF Len(stack) = 1
                           THEN [kind |-> "return", value |-> v, exc |-> "none"]
                           ELSE outcome

Raise(e) == /\ stack' = <<>>
            /\ outcome' = [kind |-> "raise", value |-> 0, exc |-> e]
            /\ UNCHANGED ret

Stay == /\ ret' = 0
        /\ UNCHANGED <<stack, outcome>>

---------------------------------------------------------------------------
(* _random_in_range(low, high), lines 6-21.                                *)

IdleRir == [pc |-> "idle", low |-> 0, high |-> 0, num_bytes |-> 0, n |-> 0]

EnterRir(low, high) ==
    [pc |-> "L17", low |-> low, high |-> high, num_bytes |-> 0, n |-> 0]

\* Line 17: (int(math.log(high, 2)) / 8) + 1, Python 2 integer division.
NumBytes(high) == (Log2Floor(high) \div 8) + 1

\* int(os.urandom(num_bytes).encode('hex'), 16) is any of 0 .. 256^num_bytes - 1.
\* A value outside [low, high] is only ever read by the loop test of line 19
\* and is overwritten by line 20, so the rejected draws are represented by
\* the two values next to the range; every draw inside the range is kept.
Urandom(num_bytes, low, high) ==
    LET top == Pow(256, num_bytes) - 1
    IN  {b \in ((low - 1) .. (high + 1)) \cup {low - 1, high + 1} :
            /\ 0 <= b /\ b <= top
            /\ (b < low \/ b > high) => b \in {low - 1, high + 1}}

\* Line 17.  math.log raises ValueError for high <= 0.
RirBytes ==
    /\ Running("_random_in_range") /\ rir.pc = "L17"
    /\ IF rir.high <= 0
       THEN /\ Raise("ValueError")
            /\ rir' = [rir EXCEPT !.pc = "raised"]
       ELSE /\ rir' = [rir EXCEPT !.pc = "draw", !.num_bytes = NumBytes(rir.high)]
            /\ Stay
    /\ UNCHANGED <<call, rbi, rab, rp, rpf, sp, fsp>>

\* Lines 18 and 20: n = int(os.urandom(num_bytes).encode('hex'), 16).
RirDraw ==
    /\ Running("_random_in_range") /\ rir.pc = "draw"
    /\ \E b \in Urandom(rir.num_bytes, rir.low, rir.high) :
           rir' = [rir EXCEPT !.pc = "L19", !.n = b]
    /\ Stay
    /\ UNCHANGED <<call, rbi, rab, rp, rpf, sp, fsp>>

\* Line 19, the loop test, and line 21, return n (the frame is released).
RirTest ==
    /\ Running("_random_in_range") /\ rir.pc = "L19"
    /\ IF rir.n < rir.low \/ rir.n > rir.high
       THEN /\ rir' = [rir EXCEPT !.pc = "draw"]
            /\ Stay
       ELSE /\ rir' = IdleRir
            /\ Return(rir.n)
    /\ UNCHANGED <<call, rbi, rab, rp, rpf, sp, fsp>>

---------------------------------------------------------------------------
(* _random_bit_integer(k), lines 23-34.                                    *)

IdleRbi == [pc |-> "idle", k |-> 0]

\* RandomBitLow with the exponent one too small: the range then starts among
\* the (k - 1)-bit integers.
RandomBitLowShort(k) == IF k >= 2 THEN Pow(2, k - 2) + 1 ELSE 2

\* Line 32: (2 ** (k - 1)) + 1.  For k <= 0 Python 2 evaluates 2 ** (k - 1)
\* to a float in (0, 1), so low lies strictly between 1 and 2 and, for the
\* integers it is compared with, n < low is n < 2.
RandomBitLow(k) == IF k >= 1 THEN Pow(2, k - 1) + 1 ELSE 2

\* Line 33: (2 ** k) - 1.
RandomBitHigh(k) == Pow(2, k) - 1

\* Lines 32-34: the call of _random_in_range(low, high).
RbiCall ==
    /\ Running("_random_bit_integer") /\ rbi.pc = "L32"
    /\ rbi' = [rbi EXCEPT !.pc = "L34"]
    /\ rir' = EnterRir(RandomBitLow(rbi.k), RandomBitHigh(rbi.k))
    /\ Call("_random_in_range")
    /\ UNCHANGED <<call, rab, rp, rpf, sp, fsp>>

\* Line 34: return what _random_in_range returned.
RbiReturn ==
    /\ Running("_random_bit_integer") /\ rbi.pc = "L34"
    /\ rbi' = [rbi EXCEPT !.pc = "done"]
    /\ Return(ret)
    /\ UNCHANGED <<call, rir, rab, rp, rpf, sp, fsp>>

---------------------------------------------------------------------------
(* is_prime_rabin(n, probability), lines 36-79.                            *)

IdleRab == [pc |-> "idle", n |-> 0, s |-> 0, nn |-> 0, r |-> 0,
            num_trials |-> 0, i |-> 0, result |-> "none"]

EnterRab(n) == [IdleRab EXCEPT !.pc = "L50", !.n = n]

\* Line 65: int(math.log((1 / probability), 4)).
NumTrials(invp) == Log4Floor(invp)

\* Line 72, the step of the inner loop: y = pow(y, y, n).
SquareStep(y, n) == PowMod(y, y, n)

\* Lines 70-77, entered with y not in {1, n - 1} and j = 1: TRUE when the
\* round goes on to the next witness, FALSE when it returns False.
RECURSIVE InnerLoop(_, _, _, _)
InnerLoop(y, j, s, n) ==
    IF j <= s - 1 /\ y # n - 1
    THEN LET y2 == SquareStep(y, n)
         IN  IF y2 = 1 THEN FALSE ELSE InnerLoop(y2, j + 1, s, n)
    ELSE y = n - 1

\* Lines 68-77 for the witness a.
RoundPasses(n, s, r, a) ==
    LET y == PowMod(a, r, n)
    IN  IF y # 1 /\ y # n - 1 THEN InnerLoop(y, 1, s, n) ELSE TRUE

\* Lines 50-57.
RabEntry ==
    /\ Running("is_prime_rabin") /\ rab.pc = "L50"
    /\ IF rab.n = 2
       THEN /\ rab' = [rab EXCEPT !.pc = "done", !.result = TRUE]
            /\ Return(TRUE)
       ELSE IF rab.n % 2 = 0
       THEN /\ rab' = [rab EXCEPT !.pc = "done", !.result = FALSE]
            /\ Return(FALSE)
       ELSE /\ rab' = [rab EXCEPT !.pc = "L58", !.nn = rab.n - 1, !.s = 0]
            /\ Stay
    /\ UNCHANGED <<call, rir, rbi, rp, rpf, sp, fsp>>

\* Lines 58-61: one turn of the loop that divides n - 1 by 2, or its exit.
\* For n = 1, nn is 0 and the loop never ends; the model follows it to MaxS.
RabFactor ==
    /\ Running("is_prime_rabin") /\ rab.pc = "L58"
    /\ IF rab.nn % 2 = 0
       THEN /\ rab.s < MaxS
            /\ rab' = [rab EXCEPT !.s = rab.s + 1, !.nn = rab.nn \div 2]
       ELSE rab' = [rab EXCEPT !.pc = "L63", !.r = rab.nn]
    /\ Stay
    /\ UNCHANGED <<call, rir, rbi, rp, rpf, sp, fsp>>

\* Lines 63-65: the assertion and the number of rounds.
RabTrials ==
    /\ Running("is_prime_rabin") /\ rab.pc = "L63"
    /\ IF Pow(2, rab.s) * rab.r = rab.n - 1
       THEN /\ rab' = [rab EXCEPT !.pc = "L66", !.i = 0,
                                  !.num_trials = NumTrials(call.invp)]
            /\ Stay
       ELSE /\ rab' = [rab EXCEPT !.pc = "raised"]
            /\ Raise("AssertionError")
    /\ UNCHANGED <<call, rir, rbi, rp, rpf, sp, fsp>>

\* Lines 66-67 and 79: the next round draws its witness from [2, n - 2], or
\* all rounds are over and the answer is True.
RabLoop ==
    /\ Running("is_prime_rabin") /\ rab.pc = "L66"
    /\ IF rab.i < rab.num_trials
       THEN /\ rab' = [rab EXCEPT !.pc = "L68"]
            /\ rir' = EnterRir(2, rab.n - 2)
            /\ Call("_random_in_range")
       ELSE /\ rab' = [rab EXCEPT !.pc = "done", !.result = TRUE]
            /\ rir' = rir
            /\ Return(TRUE)
    /\ UNCHANGED <<call, rbi, rp, rpf, sp, fsp>>

\* Lines 67-77: the round of the witness a just drawn (a, y and j are not
\* read after the round).
RabRound ==
    /\ Running("is_prime_rabin") /\ rab.pc = "L68"
    /\ IF RoundPasses(rab.n, rab.s, rab.r, ret)
       THEN /\ rab' = [rab EXCEPT !.pc = "L66", !.i = rab.i + 1]
            /\ Stay
       ELSE /\ rab' = [rab EXCEPT !.pc = "done", !.result = FALSE]
            /\ Return(FALSE)
    /\ UNCHANGED <<call, rir, rbi, rp, rpf, sp, fsp>>

---------------------------------------------------------------------------
(* random_prime(k, probability, num_trials), lines 81-102.                 *)

IdleRp == [pc |-> "idle", k |-> 0, num_trials |-> 0, block |-> FALSE,
           trial |-> 0, n |-> 0]

EnterRp(k, num_trials) == [IdleRp EXCEPT !.pc = "L94", !.k = k,
                                         !.num_trials = num_trials]

\* Lines 94-95.
RpEntry ==
    /\ Running("random_prime") /\ rp.pc = "L94"
    /\ rp' = [rp EXCEPT !.pc = "L96", !.block = (rp.num_trials = 0), !.trial = 0]
    /\ Stay
    /\ UNCHANGED <<call, rir, rbi, rab, rpf, sp, fsp>>

\* Lines 96-97 and 102: the next candidate, or the search is exhausted.
RpLoop ==
    /\ Running("random_prime") /\ rp.pc = "L96"
    /\ IF rp.trial < rp.num_trials \/ rp.block
       THEN /\ rp' = [rp EXCEPT !.pc = "L97"]
            /\ rbi' = [pc |-> "L32", k |-> rp.k]
            /\ Call("_random_bit_integer")
       ELSE /\ rp' = [rp EXCEPT !.pc = "raised"]
            /\ rbi' = rbi
            /\ Raise("Exception")
    /\ UNCHANGED <<call, rir, rab, rpf, sp, fsp>>

\* Lines 97-98: n is the candidate; is_prime_rabin(n, probability) is called.
RpTest ==
    /\ Running("random_prime") /\ rp.pc = "L97"
    /\ rp' = [rp EXCEPT !.pc = "L98", !.n = ret]
    /\ rab' = EnterRab(ret)
    /\ Call("is_prime_rabin")
    /\ UNCHANGED <<call, rir, rbi, rpf, sp, fsp>>

\* Lines 98-100: return n when the test said True, else count the trial.
\* In blocking mode trial grows without limit; the model follows it to MaxTrial.
RpDecide ==
    /\ Running("random_prime") /\ rp.pc = "L98"
    /\ IF ret
       THEN /\ rp' = [rp EXCEPT !.pc = "done"]
            /\ Return(rp.n)
       ELSE /\ rp.trial < MaxTrial
            /\ rp' = [rp EXCEPT !.pc = "L96", !.trial = rp.trial + 1]
            /\ Stay
    /\ UNCHANGED <<call, rir, rbi, rab, rpf, sp, fsp>>

---------------------------------------------------------------------------
(* random_prime_with_filter(k, condition, probability), lines 104-129.     *)

\* Line 121.
FilterTrials == 1000

IdleRpf == [pc |-> "idle", k |-> 0, trial |-> 0, p |-> 0]

\* Lines 185-186, the only condition the source passes.
prime_filter(p) == p % 4 = 3

\* Lines 121-123.
RpfEntry ==
    /\ Running("random_prime_with_filter") /\ rpf.pc = "L121"
    /\ rpf' = [rpf EXCEPT !.pc = "L124", !.trial = 0]
    /\ Stay
    /\ UNCHANGED <<call, rir, rbi, rab, rp, sp, fsp>>

\* Lines 124-125 and 129: random_prime(k, probability), or the search is
\* exhausted.
RpfLoop ==
    /\ Running("random_prime_with_filter") /\ rpf.pc = "L124"
    /\ IF rpf.trial < FilterTrials
       THEN /\ rpf' = [rpf EXCEPT !.pc = "L125"]
            /\ rp' = EnterRp(rpf.k, 0)
            /\ Call("random_prime")
       ELSE /\ rpf' = [rpf EXCEPT !.pc = "raised"]
            /\ rp' = rp
            /\ Raise("Exception")
    /\ UNCHANGED <<call, rir, rbi, rab, sp, fsp>>

\* Lines 125-128.
RpfFilter ==
    /\ Running("random_prime_with_filter") /\ rpf.pc = "L125"
    /\ IF prime_filter(ret)
       THEN /\ rpf' = [rpf EXCEPT !.pc = "done", !.p = ret]
            /\ Return(ret)
       ELSE /\ rpf' = [rpf EXCEPT !.pc = "L124", !.p = ret, !.trial = rpf.trial + 1]
            /\ Stay
    /\ UNCHANGED <<call, rir, rbi, rab, rp, sp, fsp>>

---------------------------------------------------------------------------
(* safe_prime(k, probability), lines 131-169.                              *)

IdleSp == [pc |-> "idle", k |-> 0, s |-> 0, t |-> 0, i |-> 0, q |-> 0,
           qt |-> 0, r |-> 0, p0 |-> 0, j |-> 0]

\* Line 150.
FirstCandidate(i, t) == (2 * i * t) + 1

\* Line 157.
GordonP0(s, r) == (2 * PowMod(s, r - 2, r) * s) - 1

\* Line 162.
SecondCandidate(p0, j, r, s) == p0 + (2 * j * r * s)

\* Line 144: s = random_prime(k, probability), the call.
SpCallS ==
    /\ Running("safe_prime") /\ sp.pc = "L144"
    /\ sp' = [sp EXCEPT !.pc = "L145"]
    /\ rp' = EnterRp(sp.k, 0)
    /\ Call("random_prime")
    /\ UNCHANGED <<call, rir, rbi, rab, rpf, fsp>>

\* Lines 144-145: s is bound; t = random_prime(k, probability), the call.
SpCallT ==
    /\ Running("safe_prime") /\ sp.pc = "L145"
    /\ sp' = [sp EXCEPT !.pc = "L147", !.s = ret]
    /\ rp' = EnterRp(sp.k, 0)
    /\ Call("random_prime")
    /\ UNCHANGED <<call, rir, rbi, rab, rpf, fsp>>

\* Lines 145-148: t is bound; i = 1, q = 0.
SpInitI ==
    /\ Running("safe_prime") /\ sp.pc = "L147"
    /\ sp' = [sp EXCEPT !.pc = "L149", !.t = ret, !.i = 1, !.q = 0]
    /\ Stay
    /\ UNCHANGED <<call, rir, rbi, rab, rp, rpf, fsp>>

\* Lines 149-151 and 155-160: test the next 2it + 1, or leave the loop with
\* r = q and set p0, j = 1, q = 0.
SpFirstLoop ==
    /\ Running("safe_prime") /\ sp.pc = "L149"
    /\ IF sp.q = 0
       THEN /\ sp' = [sp EXCEPT !.pc = "L151", !.qt = FirstCandidate(sp.i, sp.t)]
            /\ rab' = EnterRab(FirstCandidate(sp.i, sp.t))
            /\ Call("is_prime_rabin")
       ELSE /\ sp' = [sp EXCEPT !.pc = "L161", !.r = sp.q,
                                !.p0 = GordonP0(sp.s, sp.q), !.j = 1, !.q = 0]
            /\ rab' = rab
            /\ Stay
    /\ UNCHANGED <<call, rir, rbi, rp, rpf, fsp>>

\* Lines 151-153.  i grows until a candidate is accepted; the model follows
\* it to MaxIter.
SpFirstTest ==
    /\ Running("safe_prime") /\ sp.pc = "L151"
    /\ sp.i < MaxIter
    /\ sp' = [sp EXCEPT !.pc = "L149", !.q = IF ret THEN sp.qt ELSE sp.q,
                        !.i = sp.i + 1]
    /\ Stay
    /\ UNCHANGED <<call, rir, rbi, rab, rp, rpf, fsp>>

\* Lines 161-163 and 167-169: test the next p0 + 2jrs, or return p = q.
SpSecondLoop ==
    /\ Running("safe_prime") /\ sp.pc = "L161"
    /\ IF sp.q = 0
       THEN /\ sp' = [sp EXCEPT !.pc = "L163",
                                !.qt = SecondCandidate(sp.p0, sp.j, sp.r, sp.s)]
            /\ rab' = EnterRab(SecondCandidate(sp.p0, sp.j, sp.r, sp.s))
            /\ Call("is_prime_rabin")
       ELSE /\ sp' = [sp EXCEPT !.pc = "done"]
            /\ rab' = rab
            /\ Return(sp.q)
    /\ UNCHANGED <<call, rir, rbi, rp, rpf, fsp>>

\* Lines 163-165.  j grows until a candidate is accepted; the model follows
\* it to MaxIter.
SpSecondTest ==
    /\ Running("safe_prime") /\ sp.pc = "L163"
    /\ sp.j < MaxIter
    /\ sp' = [sp EXCEPT !.pc = "L161", !.q = IF ret THEN sp.qt ELSE sp.q,
                        !.j = sp.j + 1]
    /\ Stay
    /\ UNCHANGED <<call, rir, rbi, rab, rp, rpf, fsp>>

---------------------------------------------------------------------------
(* fast_safe_prime(k, probability), lines 171-191.                         *)

IdleFsp == [pc |-> "idle", k |-> 0, p |-> 0]

\* Lines 187-188: p = random_prime_with_filter(k, prime_filter, probability).
FspLoop ==
    /\ Running("fast_safe_prime") /\ fsp.pc = "L187"
    /\ fsp' = [fsp EXCEPT !.pc = "L188"]
    /\ rpf' = [IdleRpf EXCEPT !.pc = "L121", !.k = fsp.k]
    /\ Call("random_prime_with_filter")
    /\ UNCHANGED <<call, rir, rbi, rab, rp, sp>>

\* Lines 188-190: p is bound; the left operand of `or`,
\* is_prime_rabin((2 * p) + 1, probability), is called.
FspCompanion ==
    /\ Running("fast_safe_prime") /\ fsp.pc = "L188"
    /\ fsp' = [fsp EXCEPT !.pc = "L190", !.p = ret]
    /\ rab' = EnterRab((2 * ret) + 1)
    /\ Call("is_prime_rabin")
    /\ UNCHANGED <<call, rir, rbi, rp, rpf, sp>>

\* Lines 190-191: when the left operand is True, return p.  Otherwise the
\* right operand is evaluated; it names is_prime, which the module never
\* defines, so Python raises NameError.
FspDecide ==
    /\ Running("fast_safe_prime") /\ fsp.pc = "L190"
    /\ IF ret
       THEN /\ fsp' = [fsp EXCEPT !.pc = "done"]
            /\ Return(fsp.p)
       ELSE /\ fsp' = [fsp EXCEPT !.pc = "raised"]
            /\ Raise("NameError")
    /\ UNCHANGED <<call, rir, rbi, rab, rp, rpf, sp>>

---------------------------------------------------------------------------
(* The top-level calls and the specifications.                             *)

Idle ==
    /\ rir = IdleRir /\ rbi = IdleRbi /\ rab = IdleRab /\ rp = IdleRp
    /\ rpf = IdleRpf /\ sp = IdleSp /\ fsp = IdleFsp
    /\ ret = 0
    /\ outcome = [kind |-> "running", value |-> 0, exc |-> "none"]

\* is_prime_rabin(n, probability).
InitRabin ==
    /\ \E n \in (0 - NegN) .. MaxN, q \in InvProbs :
           /\ call = [fn |-> "is_prime_rabin", arg |-> n, invp |-> q, num_trials |-> 0]
           /\ rab = EnterRab(n)
    /\ stack = <<"is_prime_rabin">>
    /\ rir = IdleRir /\ rbi = IdleRbi /\ rp = IdleRp
    /\ rpf = IdleRpf /\ sp = IdleSp /\ fsp = IdleFsp
    /\ ret = 0
    /\ outcome = [kind |-> "running", value |-> 0, exc |-> "none"]

\* random_prime(k, probability, num_trials).
InitRandomPrime ==
    /\ \E k \in 0 .. MaxK, q \in InvProbs, t \in 0 .. MaxNumTrials :
           /\ call = [fn |-> "random_prime", arg |-> k, invp |-> q, num_trials |-> t]
           /\ rp = EnterRp(k, t)
    /\ stack = <<"random_prime">>
    /\ rir = IdleRir /\ rbi = IdleRbi /\ rab = IdleRab
    /\ rpf = IdleRpf /\ sp = IdleSp /\ fsp = IdleFsp
    /\ ret = 0
    /\ outcome = [kind |-> "running", value |-> 0, exc |-> "none"]

\* safe_prime(k, probability).
InitSafePrime ==
    /\ \E k \in 2 .. MaxSafeK, q \in InvProbs :
           /\ call = [fn |-> "safe_prime", arg |-> k, invp |-> q, num_trials |-> 0]
           /\ sp = [IdleSp EXCEPT !.pc = "L144", !.k = k]
    /\ stack = <<"safe_prime">>
    /\ rir = IdleRir /\ rbi = IdleRbi /\ rab = IdleRab /\ rp = IdleRp
    /\ rpf = IdleRpf /\ fsp = IdleFsp
    /\ ret = 0
    /\ outcome = [kind |-> "running", value |-> 0, exc |-> "none"]

\* fast_safe_prime(k, probability).
InitFastSafePrime ==
    /\ \E k \in 2 .. MaxFastK, q \in InvProbs :
           /\ call = [fn |-> "fast_safe_prime", arg |-> k, invp |-> q, num_trials |-> 0]
           /\ fsp = [IdleFsp EXCEPT !.pc = "L187", !.k = k]
    /\ stack = <<"fast_safe_prime">>
    /\ rir = IdleRir /\ rbi = IdleRbi /\ rab = IdleRab /\ rp = IdleRp
    /\ rpf = IdleRpf /\ sp = IdleSp
    /\ ret = 0
    /\ outcome = [kind |-> "running", value |-> 0, exc |-> "none"]

Init == InitRabin \/ InitRandomPrime \/ InitSafePrime \/ InitFastSafePrime

NextRange == RirBytes \/ RirDraw \/ RirTest

NextRabin == RabEntry \/ RabFactor \/ RabTrials \/ RabLoop \/ RabRound

NextRandomPrime == RbiCall \/ RbiReturn \/ RpEntry \/ RpLoop \/ RpTest \/ RpDecide

NextFilter == RpfEntry \/ RpfLoop \/ RpfFilter

NextSafePrime ==
    \/ SpCallS \/ SpCallT \/ SpInitI
    \/ SpFirstLoop \/ SpFirstTest \/ SpSecondLoop \/ SpSecondTest

NextFastSafePrime == FspLoop \/ FspCompanion \/ FspDecide

Next ==
    \/ NextRange \/ NextRabin \/ NextRandomPrime
    \/ NextFilter \/ NextSafePrime \/ NextFastSafePrime

Spec == Init /\ [][Next]_vars

\* One specification per entry point: its calls, and the functions it reaches.
SpecRabin == InitRabin /\ [][NextRange \/ NextRabin]_vars

SpecRandomPrime ==
    InitRandomPrime /\ [][NextRange \/ NextRabin \/ NextRandomPrime]_vars

SpecSafePrime ==
    InitSafePrime /\ [][NextRange \/ NextRabin \/ NextRandomPrime \/ NextSafePrime]_vars

SpecFastSafePrime ==
    InitFastSafePrime
        /\ [][\/ NextRange \/ NextRabin \/ NextRandomPrime
              \/ NextFilter \/ NextFastSafePrime]_vars

\* The runs whose termination is in question: is_prime_rabin and random_prime,
\* with a program that keeps stepping and a byte source that is fair: a value
\* inside [low, high] that can be drawn again and again is eventually drawn.
InitFair == InitRabin \/ InitRandomPrime

NextFair == NextRange \/ NextRabin \/ NextRandomPrime

DrawInRange == RirDraw /\ rir.low <= rir'.n /\ rir'.n <= rir.high

SpecFair ==
    InitFair /\ [][NextFair]_vars /\ WF_vars(NextFair) /\ SF_vars(DrawInRange)

---------------------------------------------------------------------------
(* What the claims speak of.                                               *)

Returned == outcome.kind = "return"

Ended == outcome.kind # "running"

\* n is a prime number.
IsPrime(n) == n >= 2 /\ \A d \in 2 .. (n - 1) : n % d # 0

\* bit_length of the tests: int(math.log(n, 2)) + 1.
bit_length(n) == Log2Floor(n) + 1

\* m = 2^TwoPart(m) * OddPart(m) for m >= 1.
RECURSIVE TwoPart(_)
TwoPart(m) == IF m % 2 = 0 THEN 1 + TwoPart(m \div 2) ELSE 0

RECURSIVE OddPart(_)
OddPart(m) == IF m % 2 = 0 THEN OddPart(m \div 2) ELSE m

\* The Miller-Rabin round of the reference, squaring y = y^2 mod n: a^r = 1,
\* or a^(2^j r) = n - 1 for some 0 <= j < s, where n - 1 = 2^s r.
ReferencePasses(n, a) ==
    LET s == TwoPart(n - 1)
        r == OddPart(n - 1)
    IN  \/ PowMod(a, r, n) = 1
        \/ \E j \in 0 .. (s - 1) : PowMod(a, Pow(2, j) * r, n) = n - 1

\* is_prime_rabin(n, probability) can answer True at the call's probability:
\* n is 2, or n is odd and no round runs, or some witness of [2, n - 2]
\* passes the round of the code (the same witness may be drawn every round).
DeclaredPrime(n) ==
    \/ n = 2
    \/ /\ n >= 3 /\ n % 2 = 1
       /\ \/ NumTrials(call.invp) = 0
          \/ \E a \in 2 .. (n - 2) :
                 RoundPasses(n, TwoPart(n - 1), OddPart(n - 1), a)

\* The least t with 4^t >= x: ceil(log_4(x)) for x >= 1.
RECURSIVE CeilLog4From(_, _)
CeilLog4From(x, t) == IF Pow(4, t) >= x THEN t ELSE CeilLog4From(x, t + 1)

CeilLog4(x) == CeilLog4From(x, 0)

---------------------------------------------------------------------------
(* The claims.                                                             *)

\* C1: is_prime_rabin has no false negatives: called on a prime n >= 2 it
\* never returns False, whatever witnesses are drawn.
C1_NoFalseNegative ==
    (call.fn = "is_prime_rabin" /\ IsPrime(call.arg) /\ Returned)
        => outcome.value = TRUE

\* C2: every value p returned by safe_prime is a safe prime: p and (p - 1) / 2
\* are both declared prime by is_prime_rabin at the call's probability.
C2_SafePrime ==
    (call.fn = "safe_prime" /\ Returned)
        => /\ DeclaredPrime(outcome.value)
           /\ DeclaredPrime((outcome.value - 1) \div 2)

\* C3: for k >= 2, every value p returned by random_prime(k, ...) has exactly
\* k bits and is the candidate on which is_prime_rabin last returned True; no
\* other value is returned.
C3_RandomPrimeExact ==
    (call.fn = "random_prime" /\ call.arg >= 2 /\ Returned)
        => /\ Pow(2, call.arg - 1) <= outcome.value
           /\ outcome.value < Pow(2, call.arg)
           /\ bit_length(outcome.value) = call.arg
           /\ rab.pc = "done" /\ rab.n = outcome.value /\ rab.result = TRUE

\* A 4-bit request answered with 13, accepted after three rounds.
C3_Witness ==
    /\ call.fn = "random_prime" /\ call.arg = 4 /\ Returned
    /\ outcome.value = 13
    /\ rab.num_trials = 3 /\ rab.i = 3

\* C4: for k >= 2, the value returned by safe_prime(k, ...) has 2k - 1 or 2k
\* bits.
C4_BitLength ==
    (call.fn = "safe_prime" /\ call.arg >= 2 /\ Returned)
        => bit_length(outcome.value) \in {(2 * call.arg) - 1, 2 * call.arg}

\* C5: random_prime(0, ...) and random_prime(1, ...) end by raising an error:
\* neither runs forever and neither returns a value.
C5_InvalidInput ==
    (call.fn = "random_prime" /\ call.arg \in {0, 1}) ~> (outcome.kind = "raise")

\* C6: every run of fast_safe_prime that ends returns a p with p mod 4 = 3 for
\* which 2p + 1 or (p - 1) / 2 is declared prime; no run ends by an error.
C6_BlocksUntilSuccess ==
    (call.fn = "fast_safe_prime" /\ Ended)
        => /\ Returned
           /\ outcome.value % 4 = 3
           /\ \/ DeclaredPrime((2 * outcome.value) + 1)
              \/ DeclaredPrime((outcome.value - 1) \div 2)

\* C7: for n = 2, for n < 2 and for even n > 2, is_prime_rabin never enters
\* the sampler (no witness is drawn) and ends only by returning True for
\* n = 2 and False otherwise.
C7_EdgeCases ==
    (call.fn = "is_prime_rabin" /\ (call.arg <= 2 \/ call.arg % 2 = 0))
        => /\ \A d \in 1 .. Len(stack) : stack[d] # "_random_in_range"
           /\ Ended => (Returned /\ outcome.value = (call.arg = 2))

\* C8: the number of rounds is t = ceil(log_4(1 / probability)), so that
\* 4^-t <= probability.
C8_RoundCount ==
    (call.fn = "is_prime_rabin" /\ rab.pc \in {"L66", "L68"})
        => /\ rab.num_trials = CeilLog4(call.invp)
           /\ Pow(4, rab.num_trials) >= call.invp

\* C9: a round of is_prime_rabin lets a witness pass only if the reference
\* round (squaring y = y^2 mod n) lets it pass, so that True is returned only
\* when every drawn witness passes the reference round.
C9_ReferenceRound ==
    [][(rab.pc = "L68" /\ rab'.pc = "L66") => ReferencePasses(rab.n, ret)]_vars

\* C10: with a fair byte source, is_prime_rabin(n, probability) ends for every
\* n >= 2 whenever at least one round runs, n = 3 included.
C10_Terminates ==
    (call.fn = "is_prime_rabin" /\ call.arg >= 2 /\ NumTrials(call.invp) >= 1)
        ~> Ended

===========================================================================
